---- MODULE Spec2Model ----
(***************************************************************************)
(* The contact flow of the portfolio site: the Contact form widget          *)
(* (components/Contact.tsx) and the mail dispatch API route                 *)
(* (pages/api/send-email.ts).                                               *)
(*                                                                          *)
(* JavaScript strings that the code inspects character by character (the    *)
(* email value, the message value) are sequences of one-character strings;  *)
(* strings the code only stores or compares are TLA+ strings.               *)
(***************************************************************************)
EXTENDS Integers, Sequences, FiniteSets, Bags, TLC

VARIABLES
    open, success, error, loading, formState,   \* Contact.tsx useState cells
    net,            \* bag of the fetch() calls of the widget that have not settled yet
    lastOp,         \* the handler of the widget that ran last
    lastSubmit,     \* <<the request of the last submit() that passed validation>> while
                    \* the user has done nothing since, <<>> otherwise
    RESEND_API_KEY, CONTACT_FORM_EMAIL, API_URL, IS_DEVELOPMENT,  \* send-email.ts environment
    resend,         \* send-email.ts module-level provider handle
    served          \* <<>> or <<the request the route handled last, with its outcome>>

widgetVars == <<open, success, error, loading, formState, net, lastOp, lastSubmit>>
envVars == <<RESEND_API_KEY, CONTACT_FORM_EMAIL, API_URL, IS_DEVELOPMENT, resend>>
vars == <<open, success, error, loading, formState, net, lastOp, lastSubmit,
          RESEND_API_KEY, CONTACT_FORM_EMAIL, API_URL, IS_DEVELOPMENT, resend, served>>

\* ------------------------------------------------------------------------
\* Bounds of the model
\* ------------------------------------------------------------------------
\* fetch() calls of the widget that may be outstanding at once
MaxInFlight == 2

\* ------------------------------------------------------------------------
\* JavaScript values
\* ------------------------------------------------------------------------
\* JavaScript null / undefined where the code stores it in a string cell
null == "<null>"
undefined == "<undefined>"

\* !x for a string cell
Falsy(x) == x = "" \/ x = null \/ x = undefined

\* values of a JSON body member: absent, a string (sequence of characters) or a number
Undef == [t |-> "undefined", s |-> <<>>, n |-> 0]
Str(chars) == [t |-> "string", s |-> chars, n |-> 0]
Num(k) == [t |-> "number", s |-> <<>>, n |-> k]

\* JavaScript truthiness of such a value
Truthy(v) ==
    CASE v.t = "string" -> v.s # <<>>
      [] v.t = "number" -> v.n # 0
      [] OTHER -> FALSE

\* ------------------------------------------------------------------------
\* The address pattern of handleSubmit
\* ------------------------------------------------------------------------
LowerAlpha == <<"a","b","c","d","e","f","g","h","i","j","k","l","m",
                "n","o","p","q","r","s","t","u","v","w","x","y","z">>
UpperAlpha == <<"A","B","C","D","E","F","G","H","I","J","K","L","M",
                "N","O","P","Q","R","S","T","U","V","W","X","Y","Z">>
Digits == {"0","1","2","3","4","5","6","7","8","9"}
Letters == {LowerAlpha[i] : i \in 1..26} \cup {UpperAlpha[i] : i \in 1..26}

\* String.prototype.toLowerCase
toLowerCase(s) ==
    [i \in 1..Len(s) |->
        IF \E k \in 1..26 : UpperAlpha[k] = s[i]
        THEN LowerAlpha[CHOOSE k \in 1..26 : UpperAlpha[k] = s[i]]
        ELSE s[i]]

\* [^<>()[\]\\.,;:\s@"]
AtomChar(c) ==
    c \notin {"<", ">", "(", ")", "[", "]", "\\", ".", ",", ";", ":", "@", "\"",
              " ", "\t", "\n", "\r"}

\* . (any character but a line terminator)
AnyChar(c) == c \notin {"\n", "\r"}

\* [^...]+(\.[^...]+)*
IsAtoms(s) ==
    /\ Len(s) > 0
    /\ \A i \in 1..Len(s) : s[i] = "." \/ AtomChar(s[i])
    /\ s[1] # "."
    /\ s[Len(s)] # "."
    /\ \A i \in 1..(Len(s) - 1) : ~(s[i] = "." /\ s[i + 1] = ".")

\* ".+"
IsQuoted(s) ==
    /\ Len(s) >= 3
    /\ s[1] = "\""
    /\ s[Len(s)] = "\""
    /\ \A i \in 2..(Len(s) - 1) : AnyChar(s[i])

\* [0-9]{1,3}
IsOctet(s) == Len(s) \in 1..3 /\ \A i \in 1..Len(s) : s[i] \in Digits

\* \[[0-9]{1,3}\.[0-9]{1,3}\.[0-9]{1,3}\.[0-9]{1,3}\]
IsAddressLiteral(s) ==
    /\ Len(s) >= 9
    /\ s[1] = "["
    /\ s[Len(s)] = "]"
    /\ \E i, j, k \in 2..(Len(s) - 1) :
        /\ i < j /\ j < k
        /\ s[i] = "." /\ s[j] = "." /\ s[k] = "."
        /\ IsOctet(SubSeq(s, 2, i - 1))
        /\ IsOctet(SubSeq(s, i + 1, j - 1))
        /\ IsOctet(SubSeq(s, j + 1, k - 1))
        /\ IsOctet(SubSeq(s, k + 1, Len(s) - 1))

\* ([a-zA-Z\-0-9]+\.)+
IsLabels(s) ==
    /\ Len(s) >= 2
    /\ \A i \in 1..Len(s) : s[i] = "." \/ s[i] = "-" \/ s[i] \in Letters \/ s[i] \in Digits
    /\ s[1] # "."
    /\ s[Len(s)] = "."
    /\ \A i \in 1..(Len(s) - 1) : ~(s[i] = "." /\ s[i + 1] = ".")

\* [a-zA-Z]{2,}
IsTld(s) == Len(s) >= 2 /\ \A i \in 1..Len(s) : s[i] \in Letters

\* (([a-zA-Z\-0-9]+\.)+[a-zA-Z]{2,})
IsDomainName(s) ==
    \E k \in 1..Len(s) : IsLabels(SubSeq(s, 1, k)) /\ IsTld(SubSeq(s, k + 1, Len(s)))

\* s.match(regex) is not null
matchesRegex(s) ==
    \E i \in 1..Len(s) :
        /\ s[i] = "@"
        /\ LET local == SubSeq(s, 1, i - 1)
               domain == SubSeq(s, i + 1, Len(s))
           IN /\ IsAtoms(local) \/ IsQuoted(local)
              /\ IsAddressLiteral(domain) \/ IsDomainName(domain)

\* ------------------------------------------------------------------------
\* The mail dispatch route (pages/api/send-email.ts)
\* ------------------------------------------------------------------------
\* String.prototype.startsWith
startsWith(s, prefix) ==
    Len(s) >= Len(prefix) /\ SubSeq(s, 1, Len(prefix)) = prefix

\* faulty variant of ResendInit: the format of the key is not checked
ResendInitAnyKey(key) == IF ~Truthy(key) THEN null ELSE "Resend"

\* The module-level initialisation of the provider handle: null when the key
\* is missing or does not start with "re_" (both throw into the catch that
\* only logs), the client otherwise.
ResendInit(key) ==
    IF ~Truthy(key) THEN null
    ELSE IF ~startsWith(key.s, <<"r", "e", "_">>) THEN null
    ELSE "Resend"

\* res.setHeader of the three CORS headers, or none of them
NoCors == [allowOrigin |-> undefined, allowMethods |-> undefined, allowHeaders |-> undefined]
Cors(origin) ==
    [allowOrigin |-> origin, allowMethods |-> "POST, OPTIONS", allowHeaders |-> "Content-Type"]

\* bodies of the responses: res.end() or res.json({...}); a member that is
\* not written (or is undefined, which JSON drops) is undefined
NoBody ==
    [json |-> FALSE, success |-> undefined, message |-> undefined,
     error |-> undefined, details |-> undefined, id |-> undefined]
Json(success_, message_, error_, details_, id_) ==
    [json |-> TRUE, success |-> success_, message |-> message_,
     error |-> error_, details |-> details_, id |-> id_]

Response(status_, body_) == [status |-> status_, body |-> body_]

MethodNotAllowed == Response(405, Json(undefined, "Method not allowed", undefined, undefined, undefined))
NotInitialized ==
    Response(500, Json("false", "Email service not initialized", "Internal server error",
                       undefined, undefined))
FieldsRequired ==
    Response(400, Json(undefined, "Email and message are required", undefined, undefined, undefined))
ConfigurationError ==
    Response(500, Json(undefined, "Email service configuration error", undefined,
                       "Recipient email is missing", undefined))
FailedToSend(msg) == Response(500, Json("false", "Failed to send email", msg, undefined, undefined))
SentSuccessfully(id_) ==
    Response(200, Json("true", "Email sent successfully", undefined, undefined, id_))

\* messages of the TypeErrors the JavaScript runtime throws in the handler
DestructureError == "Cannot destructure property 'email' of 'req.body' as it is undefined."
ReplaceError == "message.replace is not a function"

\* message.replace(/\n/g, '<br>')
RECURSIVE replaceNewlines(_)
replaceNewlines(s) ==
    IF s = <<>> THEN <<>>
    ELSE (IF Head(s) = "\n" THEN <<"<", "b", "r", ">">> ELSE <<Head(s)>>)
         \o replaceNewlines(Tail(s))

\* String(n) for a natural number
DigitChars == <<"0","1","2","3","4","5","6","7","8","9">>
RECURSIVE numberToString(_)
numberToString(k) ==
    IF k < 10 THEN <<DigitChars[k + 1]>>
    ELSE numberToString(k \div 10) \o <<DigitChars[(k % 10) + 1]>>

\* `${email}` inside the template string
interpolate(v) ==
    CASE v.t = "string" -> v.s
      [] v.t = "number" -> numberToString(v.n)
      [] OTHER -> <<"u","n","d","e","f","i","n","e","d">>

\* faulty variant of emailData: the configured recipient is used in both modes
emailDataConfiguredRecipient(email, message) ==
    [from |-> IF IS_DEVELOPMENT THEN "Romain BOBOE <onboarding@resend.dev>"
              ELSE "Contact Form <hi@romainboboe.com>",
     to |-> CONTACT_FORM_EMAIL,
     replyTo |-> email,
     subject |-> IF IS_DEVELOPMENT THEN "[TEST] New Message from RomainBOBOE.com"
                 ELSE "New Message from RomainBOBOE.com",
     html |-> [devBanner |-> IS_DEVELOPMENT,
               email |-> interpolate(email),
               message |-> replaceNewlines(message.s)]]

\* emailData: the composed message (the parts of the HTML that vary)
emailData(email, message) ==
    [from |-> IF IS_DEVELOPMENT THEN "Romain BOBOE <onboarding@resend.dev>"
              ELSE "Contact Form <hi@romainboboe.com>",
     to |-> IF IS_DEVELOPMENT THEN "rboboe@gmail.com" ELSE CONTACT_FORM_EMAIL,
     replyTo |-> email,
     subject |-> IF IS_DEVELOPMENT THEN "[TEST] New Message from RomainBOBOE.com"
                 ELSE "New Message from RomainBOBOE.com",
     html |-> [devBanner |-> IS_DEVELOPMENT,
               email |-> interpolate(email),
               message |-> replaceNewlines(message.s)]]

\* What one run of a piece of the handler did: the responses it wrote, the
\* messages it handed to resend.emails.send, whether it read the body, and
\* the exception it ended with (thrown, errmsg) if any.
Ran(responses_, sent_, bodyRead_) ==
    [responses |-> responses_, sent |-> sent_, bodyRead |-> bodyRead_,
     thrown |-> FALSE, errmsg |-> ""]
Threw(msg, sent_, bodyRead_) ==
    [responses |-> <<>>, sent |-> sent_, bodyRead |-> bodyRead_,
     thrown |-> TRUE, errmsg |-> msg]

\* faulty variant of dispatch: result.error is not looked at
dispatchIgnoresError(data, prov) ==
    CASE prov.kind = "throw" -> Threw(prov.message, <<data>>, TRUE)
      [] prov.kind = "data" -> Ran(<<SentSuccessfully(prov.id)>>, <<data>>, TRUE)
      [] OTHER -> Ran(<<SentSuccessfully(undefined)>>, <<data>>, TRUE)

\* resend.emails.send(emailData) followed by the mapping of its result;
\* prov is what the provider does with this call
dispatch(data, prov) ==
    CASE prov.kind = "throw" -> Threw(prov.message, <<data>>, TRUE)
      [] prov.kind = "error" -> Ran(<<FailedToSend(prov.message)>>, <<data>>, TRUE)
      [] prov.kind = "data" -> Ran(<<SentSuccessfully(prov.id)>>, <<data>>, TRUE)
      [] OTHER -> Ran(<<SentSuccessfully(undefined)>>, <<data>>, TRUE)

\* faulty variant of tryBlock: only the email member is required
tryBlockEmailOnly(req, prov) ==
    IF req.body.t # "object" THEN Threw(DestructureError, <<>>, TRUE)
    ELSE LET email == req.body.email
             message == req.body.message
         IN IF ~Truthy(email) THEN Ran(<<FieldsRequired>>, <<>>, TRUE)
            ELSE IF Falsy(CONTACT_FORM_EMAIL) THEN Ran(<<ConfigurationError>>, <<>>, TRUE)
            ELSE IF message.t # "string" THEN Threw(ReplaceError, <<>>, TRUE)
            ELSE dispatch(emailData(email, message), prov)

\* faulty variant of tryBlock: the recipient is tested before the fields
tryBlockRecipientFirst(req, prov) ==
    IF req.body.t # "object" THEN Threw(DestructureError, <<>>, TRUE)
    ELSE LET email == req.body.email
             message == req.body.message
         IN IF Falsy(CONTACT_FORM_EMAIL) THEN Ran(<<ConfigurationError>>, <<>>, TRUE)
            ELSE IF ~Truthy(email) \/ ~Truthy(message) THEN Ran(<<FieldsRequired>>, <<>>, TRUE)
            ELSE IF message.t # "string" THEN Threw(ReplaceError, <<>>, TRUE)
            ELSE dispatch(emailData(email, message), prov)

\* the body of the try statement
tryBlock(req, prov) ==
    IF req.body.t # "object" THEN Threw(DestructureError, <<>>, TRUE)
    ELSE LET email == req.body.email
             message == req.body.message
         IN IF ~Truthy(email) \/ ~Truthy(message) THEN Ran(<<FieldsRequired>>, <<>>, TRUE)
            ELSE IF Falsy(CONTACT_FORM_EMAIL) THEN Ran(<<ConfigurationError>>, <<>>, TRUE)
            ELSE IF message.t # "string" THEN Threw(ReplaceError, <<>>, TRUE)
            ELSE dispatch(emailData(email, message), prov)

\* faulty variant of tryCatch: no catch clause
tryNoCatch(req, prov) == tryBlock(req, prov)

\* try { ... } catch (error) { res.status(500).json({... error.message}) }
tryCatch(req, prov) ==
    LET t == tryBlock(req, prov)
    IN IF t.thrown
       THEN Ran(t.responses \o <<FailedToSend(t.errmsg)>>, t.sent, t.bodyRead)
       ELSE t

\* faulty variant of corsHeaders: the mode is not looked at
corsHeadersAllowListOnly(req) ==
    LET origin == IF Falsy(req.origin) THEN "" ELSE req.origin
        allowedOrigins == {API_URL, "http://localhost:3000"}
    IN IF origin \in allowedOrigins THEN Cors(origin) ELSE NoCors

\* the CORS headers the handler sets before it looks at the method
corsHeaders(req) ==
    LET origin == IF Falsy(req.origin) THEN "" ELSE req.origin
        allowedOrigins == {API_URL, "http://localhost:3000"}
    IN IF IS_DEVELOPMENT \/ origin \in allowedOrigins THEN Cors(origin) ELSE NoCors

\* faulty variant of handler: the provider handle is tested before the method
handlerReadinessFirst(req, prov) ==
    LET run ==
            IF resend = null THEN Ran(<<NotInitialized>>, <<>>, FALSE)
            ELSE IF req.method = "OPTIONS" THEN Ran(<<Response(200, NoBody)>>, <<>>, FALSE)
            ELSE IF req.method # "POST" THEN Ran(<<MethodNotAllowed>>, <<>>, FALSE)
            ELSE tryCatch(req, prov)
    IN [responses |-> run.responses, sent |-> run.sent, bodyRead |-> run.bodyRead,
        fault |-> run.thrown, headers |-> corsHeaders(req),
        result |-> IF run.sent = <<>> THEN <<>> ELSE <<prov>>]

\* faulty variant of handler: a POST equal to the one handled just before, for
\* which the provider was called, is answered without calling it again
handlerDeduplicates(req, prov) ==
    LET repeated == served # <<>> /\ served[1].req = req /\ served[1].out.sent # <<>>
        run ==
            IF req.method = "OPTIONS" THEN Ran(<<Response(200, NoBody)>>, <<>>, FALSE)
            ELSE IF req.method # "POST" THEN Ran(<<MethodNotAllowed>>, <<>>, FALSE)
            ELSE IF resend = null THEN Ran(<<NotInitialized>>, <<>>, FALSE)
            ELSE IF repeated THEN Ran(served[1].out.responses, <<>>, TRUE)
            ELSE tryCatch(req, prov)
    IN [responses |-> run.responses, sent |-> run.sent, bodyRead |-> run.bodyRead,
        fault |-> run.thrown, headers |-> corsHeaders(req),
        result |-> IF run.sent = <<>> THEN <<>> ELSE <<prov>>]

\* handler(req, res): the whole route, as the outcome of one request
handler(req, prov) ==
    LET run ==
            IF req.method = "OPTIONS" THEN Ran(<<Response(200, NoBody)>>, <<>>, FALSE)
            ELSE IF req.method # "POST" THEN Ran(<<MethodNotAllowed>>, <<>>, FALSE)
            ELSE IF resend = null THEN Ran(<<NotInitialized>>, <<>>, FALSE)
            ELSE tryCatch(req, prov)
    IN [responses |-> run.responses, sent |-> run.sent, bodyRead |-> run.bodyRead,
        fault |-> run.thrown, headers |-> corsHeaders(req),
        result |-> IF run.sent = <<>> THEN <<>> ELSE <<prov>>]

\* ------------------------------------------------------------------------
\* The form widget (components/Contact.tsx)
\* ------------------------------------------------------------------------
EmptyEmailError == "Oops! Email cannot be empty."
InvalidEmailError == "Please enter a valid email address"
EmptyMessageError == "Oops! Message cannot be empty."
SuccessMessage == "Message sent successfully! I'll get back to you soon."
GenericError == "Failed to send message. Please try again later."

\* the form state of a fresh, a reopened and a successfully submitted widget
EmptyForm == [email |-> [value |-> <<>>, error |-> ""], message |-> [value |-> <<>>, error |-> ""]]

\* faulty variant of validation: the message is not checked
validationNoMessageRule(fs) ==
    IF fs.email.value = <<>>
    THEN [rule |-> 1, state |-> [fs EXCEPT !.email.error = EmptyEmailError]]
    ELSE IF ~matchesRegex(toLowerCase(fs.email.value))
    THEN [rule |-> 2, state |-> [fs EXCEPT !.email.error = InvalidEmailError]]
    ELSE [rule |-> 0, state |-> fs]

\* faulty variant of validation: every failing rule sets its error, not only the first
validationAllRules(fs) ==
    LET emailError ==
            IF fs.email.value = <<>> THEN EmptyEmailError
            ELSE IF ~matchesRegex(toLowerCase(fs.email.value)) THEN InvalidEmailError
            ELSE fs.email.error
        messageError ==
            IF fs.message.value = <<>> THEN EmptyMessageError ELSE fs.message.error
        first ==
            IF fs.email.value = <<>> THEN 1
            ELSE IF ~matchesRegex(toLowerCase(fs.email.value)) THEN 2
            ELSE IF fs.message.value = <<>> THEN 3
            ELSE 0
    IN [rule |-> first,
        state |-> [fs EXCEPT !.email.error = emailError, !.message.error = messageError]]

\* The three checks of handleSubmit, in their order: rule is the number of
\* the first rule that fails (0 when none does), state is the form state
\* the check leaves behind.
validation(fs) ==
    IF fs.email.value = <<>>
    THEN [rule |-> 1, state |-> [fs EXCEPT !.email.error = EmptyEmailError]]
    ELSE IF ~matchesRegex(toLowerCase(fs.email.value))
    THEN [rule |-> 2, state |-> [fs EXCEPT !.email.error = InvalidEmailError]]
    ELSE IF fs.message.value = <<>>
    THEN [rule |-> 3, state |-> [fs EXCEPT !.message.error = EmptyMessageError]]
    ELSE [rule |-> 0, state |-> fs]

\* JSON.stringify({email, message}) as the route's body parser reads it back
requestBody(fs) == [t |-> "object", email |-> Str(fs.email.value), message |-> Str(fs.message.value)]

\* the base URL the widget posts to; the page is served from that origin
baseUrl == IF IS_DEVELOPMENT THEN "http://localhost:3000" ELSE "https://romainboboe.com"

\* fetch(`${baseUrl}/api/send-email`, {method: 'POST', ...})
fetchRequest(fs) == [method |-> "POST", origin |-> baseUrl, body |-> requestBody(fs)]

\* response.ok
ok(response) == response.status \in 200..299

\* an outstanding fetch(): its request and, once the route has handled it,
\* the outcome of the handler
Pending(req) == [req |-> req, out |-> <<>>]
Answered(req, outcome) == [req |-> req, out |-> <<outcome>>]

\* faulty variant of onChangeHandler: the errors of both fields are cleared
onChangeHandlerClearsAllErrors(field, value) ==
    /\ open
    /\ formState' = [f \in {"email", "message"} |->
                        IF f = field THEN [value |-> value, error |-> null]
                        ELSE [value |-> formState[f].value, error |-> null]]
    /\ lastOp' = "onChangeHandler"
    /\ UNCHANGED <<open, success, error, loading, net>>

\* faulty variant of onChangeHandler: the field's error is kept
onChangeHandlerKeepsError(field, value) ==
    /\ open
    /\ formState' = [formState EXCEPT ![field].value = value]
    /\ lastOp' = "onChangeHandler"
    /\ UNCHANGED <<open, success, error, loading, net>>

\* onChange of the two inputs (rendered only while the widget is open)
onChangeHandler(field, value) ==
    /\ open
    /\ formState' = [formState EXCEPT ![field] = [value |-> value, error |-> null]]
    /\ lastOp' = "onChangeHandler"
    /\ UNCHANGED <<open, success, error, loading, net>>

\* onClick of the submit button (rendered only while the widget is open), up
\* to the await of fetch
handleSubmit ==
    /\ open
    /\ LET v == validation(formState)
       IN IF v.rule # 0
          THEN /\ formState' = v.state
               /\ UNCHANGED <<success, error, loading, net>>
          ELSE /\ BagCardinality(net) < MaxInFlight
               /\ loading' = TRUE
               /\ error' = null
               /\ success' = null
               /\ net' = net (+) SetToBag({Pending(fetchRequest(formState))})
               /\ UNCHANGED formState
    /\ lastOp' = "handleSubmit"
    /\ UNCHANGED open

\* faulty variant of fetchResolved: the fields are not cleared on success
fetchResolvedKeepsFields(call) ==
    /\ call.out # <<>>
    /\ call.out[1].responses # <<>>
    /\ LET response == call.out[1].responses[1]
       IN IF ok(response)
          THEN /\ success' = SuccessMessage
               /\ UNCHANGED <<error, formState>>
          ELSE /\ error' = GenericError
               /\ UNCHANGED <<success, formState>>
    /\ loading' = FALSE
    /\ net' = net (-) SetToBag({call})
    /\ lastOp' = "fetchResolved"
    /\ UNCHANGED open

\* faulty variant of fetchResolved: the banner shows the message of the
\* server's body
fetchResolvedShowsServerMessage(call) ==
    /\ call.out # <<>>
    /\ call.out[1].responses # <<>>
    /\ LET response == call.out[1].responses[1]
       IN IF ok(response)
          THEN /\ success' = SuccessMessage
               /\ formState' = EmptyForm
               /\ UNCHANGED error
          ELSE /\ error' = response.body.message
               /\ UNCHANGED <<success, formState>>
    /\ loading' = FALSE
    /\ net' = net (-) SetToBag({call})
    /\ lastOp' = "fetchResolved"
    /\ UNCHANGED open

\* handleSubmit after the await, when fetch resolved with the route's response
fetchResolved(call) ==
    /\ call.out # <<>>
    /\ call.out[1].responses # <<>>
    /\ LET response == call.out[1].responses[1]
       IN IF ok(response)
          THEN /\ success' = SuccessMessage
               /\ formState' = EmptyForm
               /\ UNCHANGED error
          ELSE /\ error' = GenericError
               /\ UNCHANGED <<success, formState>>
    /\ loading' = FALSE
    /\ net' = net (-) SetToBag({call})
    /\ lastOp' = "fetchResolved"
    /\ UNCHANGED open

\* handleSubmit after the await, when fetch rejected (the request or its
\* response was lost)
fetchRejected(call) ==
    /\ error' = GenericError
    /\ loading' = FALSE
    /\ net' = net (-) SetToBag({call})
    /\ lastOp' = "fetchRejected"
    /\ UNCHANGED <<open, success, formState>>

\* faulty variant of handleButtonClick: the status cells are not reset
handleButtonClickKeepsStatus ==
    /\ open' = ~open
    /\ formState' = EmptyForm
    /\ lastOp' = "handleButtonClick"
    /\ UNCHANGED <<loading, error, success, net>>

\* onClick of the round button
handleButtonClick ==
    /\ open' = ~open
    /\ formState' = EmptyForm
    /\ loading' = FALSE
    /\ error' = ""
    /\ success' = ""
    /\ lastOp' = "handleButtonClick"
    /\ UNCHANGED net

\* ------------------------------------------------------------------------
\* Inputs
\* ------------------------------------------------------------------------
\* what the user types into the email input
EmailValues ==
    { <<>>,
      <<"A",".","b","@","b","-","1",".","C","o">>,
      <<"\"","a"," ","b","\"","@","[","1",".","2","2",".","3",".","4","]">>,
      <<"n","o","t","-","a","n","-","e","m","a","i","l">>,
      <<"a","@","b",".","c">> }

\* what the user types into the message input
MessageValues == { <<>>, <<"h","\n","i">> }

\* what the provider does with one call of its send operation
ProviderResults ==
    { [kind |-> "data", id |-> "abc123", message |-> ""],
      [kind |-> "error", id |-> "", message |-> "The domain is not verified"],
      [kind |-> "empty", id |-> "", message |-> ""],
      [kind |-> "throw", id |-> "", message |-> "fetch failed"] }

\* requests of arbitrary clients of the route
Methods == {"POST", "OPTIONS", "GET"}
OriginHeaders == {undefined, "http://localhost:3000", "https://romainboboe.com", "https://evil.example"}
MemberValues == {Undef, Str(<<"a","@","b",".","c","o">>)}
MessageMemberValues == {Undef, Str(<<>>), Str(<<"h","\n","i">>), Num(42)}
Bodies ==
    {[t |-> "null", email |-> Undef, message |-> Undef],
     [t |-> "object", email |-> Num(42), message |-> Str(<<"h","\n","i">>)]} \cup
    {[t |-> "object", email |-> e, message |-> m] : e \in MemberValues, m \in MessageMemberValues}

\* ------------------------------------------------------------------------
\* The system
\* ------------------------------------------------------------------------
Init ==
    /\ open = FALSE
    /\ success = ""
    /\ error = ""
    /\ loading = FALSE
    /\ formState = EmptyForm
    /\ net = EmptyBag
    /\ lastOp = "mount"
    /\ lastSubmit = <<>>
    /\ RESEND_API_KEY \in {Undef, Str(<<"s","k","_","1">>), Str(<<"r","e","_","1">>)}
    /\ CONTACT_FORM_EMAIL \in {undefined, "owner@romainboboe.com"}
    /\ API_URL \in {"http://localhost:3000", "https://romainboboe.com"}
    /\ IS_DEVELOPMENT \in BOOLEAN
    /\ resend = ResendInit(RESEND_API_KEY)
    /\ served = <<>>

\* the route handles a request of the widget
serve(call) ==
    /\ call.out = <<>>
    /\ \E prov \in ProviderResults :
        net' = (net (-) SetToBag({call})) (+) SetToBag({Answered(call.req, handler(call.req, prov))})
    /\ lastOp' = "serve"
    /\ UNCHANGED <<open, success, error, loading, formState, envVars, served>>

\* the route handles a request of any client
request(method, origin, body, prov) ==
    /\ LET req == [method |-> method, origin |-> origin, body |-> body]
       IN served' = <<[req |-> req, out |-> handler(req, prov)]>>
    /\ UNCHANGED <<widgetVars, envVars>>

Next ==
    \/ \E value \in EmailValues :
          onChangeHandler("email", value) /\ lastSubmit' = <<>> /\ UNCHANGED <<envVars, served>>
    \/ \E value \in MessageValues :
          onChangeHandler("message", value) /\ lastSubmit' = <<>> /\ UNCHANGED <<envVars, served>>
    \/ /\ handleSubmit
       /\ lastSubmit' = IF validation(formState).rule = 0 THEN <<fetchRequest(formState)>> ELSE <<>>
       /\ UNCHANGED <<envVars, served>>
    \/ handleButtonClick /\ lastSubmit' = <<>> /\ UNCHANGED <<envVars, served>>
    \/ \E call \in BagToSet(net) : fetchResolved(call) /\ UNCHANGED <<envVars, served, lastSubmit>>
    \/ \E call \in BagToSet(net) : fetchRejected(call) /\ UNCHANGED <<envVars, served, lastSubmit>>
    \/ \E call \in BagToSet(net) : serve(call) /\ UNCHANGED lastSubmit

Spec == Init /\ [][Next]_vars

\* an outstanding fetch() settles: the promise resolves or rejects and the
\* rest of handleSubmit runs
Settle ==
    \E call \in BagToSet(net) :
        (fetchResolved(call) \/ fetchRejected(call)) /\ UNCHANGED <<envVars, served, lastSubmit>>

\* Spec with every outstanding fetch() settling eventually: the transport
\* completes or fails each request, and the event loop then runs the
\* continuation of handleSubmit
FairSpec == Spec /\ WF_vars(Settle)

NextEndpoint ==
    \E method \in Methods, origin \in OriginHeaders, body \in Bodies, prov \in ProviderResults :
        request(method, origin, body, prov)

SpecEndpoint == Init /\ [][NextEndpoint]_vars

\* ------------------------------------------------------------------------
\* Properties of the widget (checked under Spec)
\* ------------------------------------------------------------------------
\* the three ways client-side validation fails, stated on a form state
EmailEmpty(fs) == fs.email.value = <<>>
EmailMalformed(fs) == fs.email.value # <<>> /\ ~matchesRegex(fs.email.value)
MessageEmpty(fs) == fs.message.value = <<>>
InvalidInput(fs) == EmailEmpty(fs) \/ EmailMalformed(fs) \/ MessageEmpty(fs)

\* the step just taken was a click on the submit button
SubmitStep == lastOp' = "handleSubmit"

\* C1: a submit() whose validation fails (email empty, email not matching the
\* address pattern, or message empty) issues no HTTP request, from every
\* reachable state of the widget.
C1_InvalidSubmitSendsNothing ==
    [][(SubmitStep /\ InvalidInput(formState)) => net' = net]_vars

\* C1 witness: a submit() has just been refused for a malformed email.
C1_Witness ==
    /\ lastOp = "handleSubmit"
    /\ EmailMalformed(formState)
    /\ formState.email.error = InvalidEmailError

\* C2: submit() applies the rules in the order email non-empty, email
\* well-formed, message non-empty; the first failing rule sets its field's
\* error to its message and nothing else of the form changes (the other
\* field's error in particular).
C2_FirstFailingRuleOnly ==
    [][SubmitStep =>
        /\ EmailEmpty(formState) =>
              formState' = [formState EXCEPT !.email.error = EmptyEmailError]
        /\ EmailMalformed(formState) =>
              formState' = [formState EXCEPT !.email.error = InvalidEmailError]
        /\ (~EmailEmpty(formState) /\ ~EmailMalformed(formState) /\ MessageEmpty(formState)) =>
              formState' = [formState EXCEPT !.message.error = EmptyMessageError]
      ]_vars

\* C2 witness: submit() ran with both fields empty and only the email error
\* is set.
C2_Witness ==
    /\ lastOp = "handleSubmit"
    /\ EmailEmpty(formState)
    /\ MessageEmpty(formState)
    /\ formState.email.error = EmptyEmailError
    /\ Falsy(formState.message.error)

\* C6: the widget never has more than one HTTP request outstanding.
C6_AtMostOneInFlight == BagCardinality(net) <= 1

\* C9: toggle() flips open, and right after a toggle() that opens the widget
\* both values and both field errors are empty, loading is false and success
\* and error are empty.
C9_ToggleResets ==
    [][(lastOp' = "handleButtonClick" \/ open' # open) =>
        /\ open' = ~open
        /\ open' => /\ formState'.email.value = <<>>
                    /\ formState'.message.value = <<>>
                    /\ formState'.email.error = ""
                    /\ formState'.message.error = ""
                    /\ loading' = FALSE
                    /\ success' = ""
                    /\ error' = ""
      ]_vars

\* C9 witness: the widget was just reopened while a request of an earlier
\* session is still outstanding.
C9_Witness ==
    /\ lastOp = "handleButtonClick"
    /\ open
    /\ net # EmptyBag

\* the call whose fetch() settles in this step
Settles(call) == call \in BagToSet(net) /\ net' = net (-) SetToBag({call})

\* C10: when fetch() resolves with a 2xx response the widget sets success to
\* the fixed message, empties both fields and their errors and sets loading
\* to false; and the route answers a request of the widget that the provider
\* accepted with id X by 200 {success:true, message:"Email sent
\* successfully", id:X}, so that submission ends with the widget showing the
\* success message over an empty form.
C10_SuccessCompletes ==
    /\ [][lastOp' = "fetchResolved" =>
            \A call \in BagToSet(net) :
                (Settles(call) /\ call.out # <<>> /\ call.out[1].responses # <<>>
                    /\ call.out[1].responses[1].status \in 200..299) =>
                        /\ success' = SuccessMessage
                        /\ formState' = EmptyForm
                        /\ loading' = FALSE
                        /\ open' = open
         ]_vars
    /\ [](\A call \in BagToSet(net) :
            (call.out # <<>> /\ call.out[1].result # <<>>
                /\ call.out[1].result[1].kind = "data") =>
                    /\ call.out[1].responses =
                          <<Response(200, Json("true", "Email sent successfully", undefined,
                                               undefined, call.out[1].result[1].id))>>
                    /\ ~InvalidInput([email |-> [value |-> call.req.body.email.s],
                                      message |-> [value |-> call.req.body.message.s]]))

\* C10 witness: the open widget shows the success message over an empty form
\* right after a response arrived.
C10_Witness ==
    /\ lastOp = "fetchResolved"
    /\ open
    /\ success = SuccessMessage
    /\ formState = EmptyForm
    /\ ~loading

\* C11: when the fetch() of a submission resolves with a status outside
\* 200..299, or rejects, the widget sets error to "Failed to send message.
\* Please try again later." whatever message the response body carries, sets
\* loading to false and leaves success as it was.
C11_FailureShowsGenericError ==
    [][\A call \in BagToSet(net) :
          (/\ Settles(call)
           /\ \/ lastOp' = "fetchRejected"
              \/ /\ lastOp' = "fetchResolved"
                 /\ call.out # <<>>
                 /\ call.out[1].responses # <<>>
                 /\ call.out[1].responses[1].status \notin 200..299) =>
                /\ error' = GenericError
                /\ loading' = FALSE
                /\ success' = success
      ]_vars

\* C11 witness: a response that was not a 2xx has just arrived and the
\* widget shows the generic message and no success.
C11_Witness ==
    /\ lastOp = "fetchResolved"
    /\ error = GenericError
    /\ Falsy(success)
    /\ ~loading

\* what updateField(field, value) leaves behind: the field holds the value
\* and no error, the other field and the status cells are as before
Fields == {"email", "message"}
FieldUpdated(field, value) ==
    /\ formState'[field].value = value
    /\ Falsy(formState'[field].error)
    /\ \A other \in Fields \ {field} : formState'[other] = formState[other]
    /\ UNCHANGED <<open, loading, success, error>>

\* C13: updateField(field, value) sets that field's value to the given value
\* and clears that field's error only; the other field's value and error and
\* open, loading, success and error are unchanged.
C13_UpdateFieldFrame ==
    [][lastOp' = "onChangeHandler" =>
          /\ \A value \in EmailValues :
                onChangeHandler("email", value) => FieldUpdated("email", value)
          /\ \A value \in MessageValues :
                onChangeHandler("message", value) => FieldUpdated("message", value)
          /\ \E field \in Fields : FieldUpdated(field, formState'[field].value)
      ]_vars

\* C13 witness: the email was just edited while the message field shows its
\* error, and that error is still there.
C13_Witness ==
    /\ lastOp = "onChangeHandler"
    /\ formState.email.value # <<>>
    /\ Falsy(formState.email.error)
    /\ formState.message.error = EmptyMessageError

\* C17: the success banner and the error banner are never both non-empty.
C17_OneBannerAtMost == Falsy(success) \/ Falsy(error)

\* C18: a reset by toggle() is not undone by a late response: when a fetch()
\* settles that was outstanding at the last toggle(), the field values and
\* errors, success, error and loading stay as they are. Only toggle() and
\* the mount write "" to success and error (submit() writes null), so while
\* both are "" every outstanding call was issued before the last toggle();
\* and while the widget is closed every outstanding call was.
AllOutstandingAreLate == ~open \/ (success = "" /\ error = "")
C18_LateResponseIgnored ==
    [][(lastOp' \in {"fetchResolved", "fetchRejected"} /\ AllOutstandingAreLate) =>
            UNCHANGED <<formState, success, error, loading>>
      ]_vars

\* C19: every displayed field error describes the field's current value: the
\* email error is "Oops! Email cannot be empty." only while the email is
\* empty and "Please enter a valid email address" only while the email is
\* non-empty and does not match the address pattern, the message error is set
\* only while the message is empty (and is then "Oops! Message cannot be
\* empty."); so a form that passes validation shows no field error.
C19_FieldErrorsDescribeValues ==
    /\ formState.email.error = EmptyEmailError => EmailEmpty(formState)
    /\ formState.email.error = InvalidEmailError => EmailMalformed(formState)
    /\ ~Falsy(formState.email.error) =>
          formState.email.error \in {EmptyEmailError, InvalidEmailError}
    /\ ~Falsy(formState.message.error) =>
          /\ formState.message.error = EmptyMessageError
          /\ MessageEmpty(formState)
    /\ ~InvalidInput(formState) =>
          Falsy(formState.email.error) /\ Falsy(formState.message.error)

\* C19 witness: the message error is displayed over an empty message after
\* the email was edited into a malformed one.
C19_Witness ==
    /\ lastOp = "onChangeHandler"
    /\ formState.message.error = EmptyMessageError
    /\ MessageEmpty(formState)
    /\ EmailMalformed(formState)
    /\ Falsy(formState.email.error)

\* The widget's side of C12 (under Spec): a submit() that passes validation
\* adds exactly one fetch() of the form's values to the outstanding calls, and
\* every request of the widget the route has handled caused one provider call
\* when the provider is ready and a recipient is configured, none otherwise.
SubmitIssuesOneRequest ==
    /\ [][(SubmitStep /\ ~InvalidInput(formState)) =>
            net' = net (+) SetToBag({[req |-> [method |-> "POST", origin |-> baseUrl,
                                               body |-> [t |-> "object",
                                                         email |-> Str(formState.email.value),
                                                         message |-> Str(formState.message.value)]],
                                      out |-> <<>>]})
         ]_vars
    /\ [](\A call \in BagToSet(net) :
            call.out # <<>> =>
                Len(call.out[1].sent) =
                    IF resend # null /\ ~Falsy(CONTACT_FORM_EMAIL) THEN 1 ELSE 0)

\* two equal submissions are outstanding and the provider was called once
\* for each of them
TwoEqualSubmissionsTwoCalls ==
    \E call \in BagToSet(net) :
        /\ CopiesIn(call, net) = 2
        /\ call.out # <<>>
        /\ Len(call.out[1].sent) = 1

\* ------------------------------------------------------------------------
\* Properties of the route (checked under SpecEndpoint)
\* ------------------------------------------------------------------------
Handled == served # <<>>
Req == served[1].req
Out == served[1].out

Post == Handled /\ Req.method = "POST"
HasBothFields == Req.body.t = "object" /\ Truthy(Req.body.email) /\ Truthy(Req.body.message)
MissingMessage == Req.body.t = "object" /\ ~Truthy(Req.body.message)
KeyInvalid == ~Truthy(RESEND_API_KEY) \/ ~startsWith(RESEND_API_KEY.s, <<"r", "e", "_">>)
Answer(status_, success_, message_, error_, details_, id_) ==
    <<Response(status_, Json(success_, message_, error_, details_, id_))>>

\* C3 as stated: a POST missing message is answered 400 {message:"Email and
\* message are required"} whatever the state of the provider handle.
C3_Original ==
    (Post /\ MissingMessage) =>
        Out.responses = Answer(400, undefined, "Email and message are required",
                               undefined, undefined, undefined)

\* C3 amended: a POST whose body is an object without a truthy message is
\* answered 400 {message:"Email and message are required"} when the provider
\* client initialized, and 500 "Email service not initialized" when it did not.
C3_MissingMessage ==
    (Post /\ MissingMessage) =>
        /\ resend # null =>
              Out.responses = Answer(400, undefined, "Email and message are required",
                                     undefined, undefined, undefined)
        /\ resend = null =>
              Out.responses = Answer(500, "false", "Email service not initialized",
                                     "Internal server error", undefined, undefined)

\* C3 witness: with an initialized provider and no recipient configured, a
\* POST carrying an email but no message was answered 400.
C3_Witness ==
    /\ Post /\ MissingMessage
    /\ Truthy(Req.body.email)
    /\ resend # null
    /\ Falsy(CONTACT_FORM_EMAIL)
    /\ Out.responses[1].status = 400

\* C4 as stated: when the API key is missing or malformed every request is
\* answered 500 "Email service not initialized".
C4_Original ==
    (KeyInvalid /\ Handled) =>
        Out.responses = Answer(500, "false", "Email service not initialized",
                               "Internal server error", undefined, undefined)

\* C4 amended: when the API key is missing or does not start with "re_" the
\* provider handle is null in every state, and every POST, whatever its body,
\* is answered 500 {success:false, message:"Email service not initialized",
\* error:"Internal server error"} without the body being read or the provider
\* called.
C4_NotInitialized ==
    KeyInvalid =>
        /\ resend = null
        /\ Post =>
              /\ Out.responses = Answer(500, "false", "Email service not initialized",
                                        "Internal server error", undefined, undefined)
              /\ Out.sent = <<>>
              /\ ~Out.bodyRead

\* C4 witness: a key that is present but malformed, and a well-formed POST
\* answered "not initialized".
C4_Witness ==
    /\ Truthy(RESEND_API_KEY) /\ KeyInvalid
    /\ Post /\ HasBothFields
    /\ Out.responses[1].body.message = "Email service not initialized"

\* C5: every request gets exactly one response and the handler never ends
\* with an exception; every failure response carries a JSON body; an
\* exception inside the handler (a body that is not an object, a message
\* that is not a string, a provider call that throws) is answered
\* 500 {success:false, message:"Failed to send email", error:<its message>}.
C5_AllFailuresCaught ==
    Handled =>
        /\ Len(Out.responses) = 1
        /\ ~Out.fault
        /\ Out.responses[1].status >= 400 => Out.responses[1].body.json
        /\ (Post /\ resend # null /\ Req.body.t # "object") =>
              Out.responses = Answer(500, "false", "Failed to send email",
                                     DestructureError, undefined, undefined)
        /\ (Post /\ resend # null /\ HasBothFields /\ ~Falsy(CONTACT_FORM_EMAIL)
                /\ Req.body.message.t # "string") =>
              Out.responses = Answer(500, "false", "Failed to send email",
                                     ReplaceError, undefined, undefined)
        /\ (Out.result # <<>> /\ Out.result[1].kind = "throw") =>
              Out.responses = Answer(500, "false", "Failed to send email",
                                     Out.result[1].message, undefined, undefined)

\* C5 witness: the provider call threw and the request was answered with the
\* exception's message.
C5_Witness ==
    /\ Handled
    /\ Out.result # <<>>
    /\ Out.result[1].kind = "throw"
    /\ Out.responses[1].body.error = "fetch failed"

\* C7: for a POST with truthy email and message, an initialized provider and
\* a configured recipient, the provider is called when the message is a
\* string, and its result decides the response: an error gives
\* 500 {success:false, message:"Failed to send email", error:<its message>},
\* a success with id X gives 200 {success:true, message:"Email sent
\* successfully", id:X}.
C7_ProviderResultMapped ==
    (Post /\ HasBothFields /\ resend # null /\ ~Falsy(CONTACT_FORM_EMAIL)) =>
        /\ Req.body.message.t = "string" => Len(Out.sent) = 1 /\ Out.result # <<>>
        /\ (Out.result # <<>> /\ Out.result[1].kind = "error") =>
              Out.responses = Answer(500, "false", "Failed to send email",
                                     Out.result[1].message, undefined, undefined)
        /\ (Out.result # <<>> /\ Out.result[1].kind = "data") =>
              Out.responses = Answer(200, "true", "Email sent successfully",
                                     undefined, undefined, Out.result[1].id)

\* C7 witness: the provider accepted the message with id abc123 and the
\* request was answered 200 with that id.
C7_Witness ==
    /\ Post /\ HasBothFields
    /\ Out.result # <<>>
    /\ Out.result[1].kind = "data"
    /\ Out.responses[1].status = 200
    /\ Out.responses[1].body.id = "abc123"

\* C8: OPTIONS is answered 200 without a body and any method other than POST
\* and OPTIONS is answered 405 {message:"Method not allowed"}; in both cases
\* the body is not read and the provider is not called, whatever the state of
\* the provider handle.
C8_MethodDispatch ==
    Handled =>
        /\ Req.method = "OPTIONS" =>
              /\ Out.responses = <<[status |-> 200, body |-> NoBody]>>
              /\ ~Out.responses[1].body.json
        /\ Req.method \notin {"POST", "OPTIONS"} =>
              Out.responses = Answer(405, undefined, "Method not allowed",
                                     undefined, undefined, undefined)
        /\ Req.method # "POST" => ~Out.bodyRead /\ Out.sent = <<>>

\* C8 witness: an OPTIONS request carrying a complete body was answered 200
\* although the provider handle is null.
C8_Witness ==
    /\ Handled
    /\ Req.method = "OPTIONS"
    /\ HasBothFields
    /\ resend = null
    /\ Out.responses[1].status = 200

\* the four checks a POST passes before the message is composed
PassesChecks == Post /\ resend # null /\ HasBothFields /\ ~Falsy(CONTACT_FORM_EMAIL)

RequestOrigin == IF Req.origin = undefined THEN "" ELSE Req.origin
OriginAllowed == RequestOrigin = API_URL \/ RequestOrigin = "http://localhost:3000"

\* C14: the response carries the CORS headers exactly when the route runs in
\* development mode or the request's origin is the configured public origin
\* or http://localhost:3000, and then Access-Control-Allow-Origin is the
\* request's origin; an OPTIONS request from an allowed origin is answered
\* 200 with that origin echoed and no body; in production a request from any
\* other origin gets none of the CORS headers.
C14_CorsHeaders ==
    Handled =>
        /\ (IS_DEVELOPMENT \/ OriginAllowed) =>
              /\ Out.headers.allowOrigin = RequestOrigin
              /\ Out.headers.allowMethods = "POST, OPTIONS"
              /\ Out.headers.allowHeaders = "Content-Type"
        /\ ~(IS_DEVELOPMENT \/ OriginAllowed) =>
              /\ Out.headers.allowOrigin = undefined
              /\ Out.headers.allowMethods = undefined
              /\ Out.headers.allowHeaders = undefined
        /\ (Req.method = "OPTIONS" /\ OriginAllowed) =>
              /\ Out.responses = <<[status |-> 200, body |-> NoBody]>>
              /\ Out.headers.allowOrigin = Req.origin

\* C14 witness: in development mode a request from an origin outside the
\* allow-list was answered with that origin echoed.
C14_Witness ==
    /\ Handled
    /\ IS_DEVELOPMENT
    /\ Req.origin = "https://evil.example"
    /\ ~OriginAllowed
    /\ Out.headers.allowOrigin = "https://evil.example"

\* C15: the recipient is validated after the fields and before the dispatch:
\* a POST with truthy email and message, an initialized provider and no
\* configured recipient is answered 500 {message:"Email service
\* configuration error", details:"Recipient email is missing"} without a
\* call of the provider, and a POST whose body lacks a field is answered 400
\* even when the recipient is missing too.
C15_RecipientAfterFields ==
    (Post /\ resend # null /\ Falsy(CONTACT_FORM_EMAIL) /\ Req.body.t = "object") =>
        /\ HasBothFields =>
              /\ Out.responses = Answer(500, undefined, "Email service configuration error",
                                        undefined, "Recipient email is missing", undefined)
              /\ Out.sent = <<>>
        /\ ~HasBothFields =>
              /\ Out.responses = Answer(400, undefined, "Email and message are required",
                                        undefined, undefined, undefined)
              /\ Out.sent = <<>>

\* C15 witness: a complete POST reached an initialized provider's route that
\* has no recipient and was answered with the configuration error.
C15_Witness ==
    /\ Post /\ HasBothFields
    /\ resend # null
    /\ Falsy(CONTACT_FORM_EMAIL)
    /\ Out.responses[1].status = 500
    /\ Out.responses[1].body.details = "Recipient email is missing"

\* C16: in development mode the message handed to the provider has the fixed
\* test sender and the fixed test recipient, whatever recipient is
\* configured, and its subject starts with "[TEST] "; in production mode the
\* sender is the public identity and the recipient the configured
\* destination; in both modes replyTo is the email of the request body.
C16_ComposedByMode ==
    (Handled /\ Out.sent # <<>>) =>
        LET data == Out.sent[1]
        IN /\ IS_DEVELOPMENT =>
                /\ data.from = "Romain BOBOE <onboarding@resend.dev>"
                /\ data.to = "rboboe@gmail.com"
                /\ data.subject = "[TEST] " \o "New Message from RomainBOBOE.com"
           /\ ~IS_DEVELOPMENT =>
                /\ data.from = "Contact Form <hi@romainboboe.com>"
                /\ data.to = CONTACT_FORM_EMAIL
                /\ data.subject = "New Message from RomainBOBOE.com"
           /\ data.replyTo = Req.body.email

\* C16 witness: in development mode, with another recipient configured, a
\* message went to the provider addressed to the test recipient.
C16_Witness ==
    /\ Handled
    /\ IS_DEVELOPMENT
    /\ CONTACT_FORM_EMAIL = "owner@romainboboe.com"
    /\ Out.sent # <<>>
    /\ Out.sent[1].to = "rboboe@gmail.com"
    /\ Out.sent[1].replyTo = Str(<<"a","@","b",".","c","o">>)

\* ------------------------------------------------------------------------
\* Progress of the widget (checked under FairSpec)
\* ------------------------------------------------------------------------
\* a submitting widget stops submitting
EventuallyFinishes == loading ~> ~loading

\* the step settles the fetch() of the last submit(), and the user has done
\* nothing since that submit()
SettlesUndisturbed(call) ==
    /\ Settles(call)
    /\ lastOp' \in {"fetchResolved", "fetchRejected"}
    /\ lastSubmit = <<call.req>>

\* C20: every submission that passes validation finishes: given that its
\* HTTP request completes or fails, loading becomes false again, and when the
\* user has done nothing between the submit() and the arrival of its outcome,
\* exactly one of success and error is set at that moment.
C20_SubmissionFinishes ==
    /\ EventuallyFinishes
    /\ [][\A call \in BagToSet(net) :
            SettlesUndisturbed(call) =>
                /\ loading' = FALSE
                /\ Falsy(success') # Falsy(error')
         ]_vars

====
